---------------------------- MODULE Spec2Model ----------------------------
(***************************************************************************)
(* Keep Me Honest: the writing checker (keep_me_honest/core/               *)
(* writing_checker.py), its dock (keep_me_honest/ui/writing_checker_ui.py) *)
(* and the debounce scheduling in the main window (keep_me_honest.py).     *)
(*                                                                         *)
(* A text is a sequence of characters, each written as a one-character     *)
(* string; the two characters outside ASCII that the model needs are       *)
(* written by their code points, "U+0130" (capital I with dot above) and   *)
(* "U+0307" (combining dot above).  Offsets stored in an issue are         *)
(* Python's: 0-based, half-open.  Positions used inside the matching       *)
(* operators are 1-based indexes into the sequence.                        *)
(***************************************************************************)
EXTENDS Integers, Sequences, FiniteSets, TLC

(***************************************************************************)
(* Characters                                                              *)
(***************************************************************************)
LowerLetters ==
  <<"a","b","c","d","e","f","g","h","i","j","k","l","m",
    "n","o","p","q","r","s","t","u","v","w","x","y","z">>

UpperLetters ==
  <<"A","B","C","D","E","F","G","H","I","J","K","L","M",
    "N","O","P","Q","R","S","T","U","V","W","X","Y","Z">>

Digits == {"0","1","2","3","4","5","6","7","8","9"}

Range(s) == {s[k] : k \in 1..Len(s)}

\* the lower-case letter of every upper-case letter
LowerOf ==
  [c \in Range(UpperLetters) |-> LowerLetters[CHOOSE k \in 1..26 : UpperLetters[k] = c]]

\* the case folding of re.IGNORECASE on one character: U+0130 folds to "i"
LowerChar(c) ==
  IF c \in DOMAIN LowerOf THEN LowerOf[c]
  ELSE IF c = "U+0130" THEN "i"
  ELSE c

\* str.lower() of one character: U+0130 becomes the two characters
\* "i" and U+0307, every other character stays one character
LowerString(c) ==
  IF c = "U+0130" THEN <<"i", "U+0307">> ELSE <<LowerChar(c)>>

\* str.lower()
RECURSIVE Lower(_)
Lower(t) == IF t = <<>> THEN <<>> ELSE LowerString(Head(t)) \o Lower(Tail(t))

\* the characters of the class \w (U+0130 is a letter, U+0307 a mark)
WordChars ==
  Range(LowerLetters) \cup Range(UpperLetters) \cup Digits \cup {"_", "U+0130"}

\* regex \w
IsWordChar(c) == c \in WordChars

\* regex \s, and the separators of str.split() and str.strip()
IsSpace(c) == c \in {" ", "\t", "\n"}

\* the character class [.!?]
IsTerminator(c) == c \in {".", "!", "?"}

IsWordAt(t, i) == i \in 1..Len(t) /\ IsWordChar(t[i])

IsSpaceAt(t, i) == i \in 1..Len(t) /\ IsSpace(t[i])

\* regex \b at the position in front of t[i], i in 1..Len(t)+1
Boundary(t, i) == IsWordAt(t, i - 1) # IsWordAt(t, i)

Min(S) == CHOOSE x \in S : \A y \in S : x <= y

\* position following the maximal run of \w characters that starts at i
WordRunEnd(t, i) == Min({j \in i..(Len(t) + 1) : ~IsWordAt(t, j)})

\* position following the maximal run of \s characters that starts at i
SpaceRunEnd(t, i) == Min({j \in i..(Len(t) + 1) : ~IsSpaceAt(t, j)})

\* the literal lit matches at position i, ignoring case
LitAt(t, i, lit) ==
  /\ i >= 1
  /\ i + Len(lit) - 1 <= Len(t)
  /\ \A k \in 1..Len(lit) : LowerChar(t[i + k - 1]) = LowerChar(lit[k])

(***************************************************************************)
(* WritingIssue                                                            *)
(***************************************************************************)
WritingIssue(issue_type, start, end, text, suggestion) ==
  [issue_type |-> issue_type, start |-> start, end |-> end,
   text |-> text, suggestion |-> suggestion]

(***************************************************************************)
(* re.finditer: the matches of a pattern from left to right, not           *)
(* overlapping.  E[i] is the position following the match that starts at   *)
(* i, or 0 when the pattern does not match at i.  Every pattern of the     *)
(* checker consumes at least one character.                                *)
(***************************************************************************)
RECURSIVE ScanMatches(_, _, _)
ScanMatches(E, i, n) ==
  IF i > n THEN <<>>
  ELSE IF E[i] > 0 THEN << <<i, E[i]>> >> \o ScanMatches(E, E[i], n)
  ELSE ScanMatches(E, i + 1, n)

finditer(E, t) == ScanMatches(E, 1, Len(t))

\* the issues of one pattern: one per match, span and text those of the match
MatchIssues(issue_type, E, t, suggestion) ==
  LET ms == finditer(E, t)
  IN  [k \in 1..Len(ms) |->
         WritingIssue(issue_type, ms[k][1] - 1, ms[k][2] - 1,
                      SubSeq(t, ms[k][1], ms[k][2] - 1), suggestion)]

\* r'\b' + re.escape(word) + r'\b'
WordPatternEnd(t, i, word) ==
  IF Boundary(t, i) /\ LitAt(t, i, word) /\ Boundary(t, i + Len(word))
    THEN i + Len(word) ELSE 0

WordPattern(t, word) == [i \in 1..Len(t) |-> WordPatternEnd(t, i, word)]

RECURSIVE Flatten(_)
Flatten(ss) == IF ss = <<>> THEN <<>> ELSE Head(ss) \o Flatten(Tail(ss))

(***************************************************************************)
(* Static data of WritingChecker                                           *)
(***************************************************************************)
\* WritingChecker.WEAK_WORDS
WEAK_WORDS ==
  << <<"v","e","r","y">>,
     <<"r","e","a","l","l","y">>,
     <<"j","u","s","t">>,
     <<"q","u","i","t","e">>,
     <<"r","a","t","h","e","r">>,
     <<"s","o","m","e","w","h","a","t">>,
     <<"a"," ","b","i","t">>,
     <<"k","i","n","d"," ","o","f">>,
     <<"s","o","r","t"," ","o","f">>,
     <<"i","n"," ","m","y"," ","o","p","i","n","i","o","n">>,
     <<"b","a","s","i","c","a","l","l","y">>,
     <<"l","i","t","e","r","a","l","l","y">>,
     <<"a","c","t","u","a","l","l","y">>,
     <<"o","b","v","i","o","u","s","l","y">>,
     <<"c","l","e","a","r","l","y">> >>

\* WritingChecker.JARGON, in the dict's insertion order: <<jargon word, simple word>>
JARGON ==
  << <<<<"u","t","i","l","i","z","e">>, "use">>,
     <<<<"l","e","v","e","r","a","g","e">>, "use">>,
     <<<<"s","y","n","e","r","g","y">>, "teamwork">>,
     <<<<"p","a","r","a","d","i","g","m">>, "model">>,
     <<<<"m","e","t","h","o","d","o","l","o","g","y">>, "method">>,
     <<<<"f","a","c","i","l","i","t","a","t","e">>, "help">>,
     <<<<"i","m","p","l","e","m","e","n","t">>, "do/start">>,
     <<<<"o","p","t","i","m","i","z","e">>, "improve">>,
     <<<<"s","t","r","a","t","e","g","i","z","e">>, "plan">>,
     <<<<"i","n","c","e","n","t","i","v","i","z","e">>, "encourage">> >>

\* WritingChecker.CINNAMON_WORDS, the default registry
CINNAMON_WORDS ==
  << <<"r","e","a","l","l","y">>,
     <<"v","e","r","y">>,
     <<"j","u","s","t">>,
     <<"n","i","c","e">>,
     <<"g","o","o","d">>,
     <<"b","a","d">>,
     <<"t","h","i","n","g">>,
     <<"s","t","u","f","f">> >>

\* the alternatives of _check_simple_alternatives, in insertion order
alternatives ==
  << <<<<"a","t"," ","t","h","i","s"," ","p","o","i","n","t"," ","i","n"," ","t","i","m","e">>, "now">>,
     <<<<"i","n"," ","t","h","e"," ","e","v","e","n","t"," ","t","h","a","t">>, "if">>,
     <<<<"d","u","e"," ","t","o"," ","t","h","e"," ","f","a","c","t"," ","t","h","a","t">>, "because">>,
     <<<<"i","n"," ","o","r","d","e","r"," ","t","o">>, "to">>,
     <<<<"f","o","r"," ","t","h","e"," ","p","u","r","p","o","s","e"," ","o","f">>, "to">> >>

\* the alternation of PASSIVE_PATTERNS[0]
PASSIVE_AUX ==
  << <<"a","m">>, <<"i","s">>, <<"a","r","e">>, <<"w","a","s">>, <<"w","e","r","e">>, <<"b","e">>, <<"b","e","e","n">>, <<"b","e","i","n","g">> >>

\* the alternation of PASSIVE_PATTERNS[1]
PASSIVE_BY_AUX ==
  << <<"w","a","s">>, <<"w","e","r","e">>, <<"i","s">>, <<"a","r","e">>, <<"a","m">>, <<"b","e","e","n">> >>

\* the words _check_adjectives_adverbs does not report
ADVERB_EXCEPTIONS ==
  << <<"o","n","l","y">>, <<"f","a","m","i","l","y">>, <<"r","e","a","l","l","y">>, <<"d","a","i","l","y">> >>


W_by == <<"b","y">>
W_ed == <<"e","d">>
W_ly == <<"l","y">>
W_its == <<"i","t","s">>
W_it_s == <<"i","t","'","s">>
W_there == <<"t","h","e","r","e">>
W_affect == <<"a","f","f","e","c","t">>
W_effect == <<"e","f","f","e","c","t">>

\* the nine keys of enabled_checks, in the order check_text runs the passes
PassNames ==
  <<"passive_voice", "weak_words", "long_sentences", "jargon",
    "adjectives_adverbs", "simple_alternatives", "confused_synonyms",
    "repeated_words", "cinnamon_words">>

(***************************************************************************)
(* The patterns                                                            *)
(***************************************************************************)
\* the maximal \w run starting at s ends in suffix and is longer than it (\w+suffix\b)
RunWithSuffixEnd(t, s, suffix) ==
  LET e == WordRunEnd(t, s)
  IN  IF IsWordAt(t, s) /\ e - s > Len(suffix) /\ LitAt(t, e - Len(suffix), suffix)
        THEN e ELSE 0

\* \b(am|is|are|was|were|be|been|being)\s+\w+ed\b
Passive0End(t, i) ==
  IF Boundary(t, i)
     /\ \E k \in 1..Len(PASSIVE_AUX) :
          LitAt(t, i, PASSIVE_AUX[k]) /\ IsSpaceAt(t, i + Len(PASSIVE_AUX[k]))
    THEN LET k == CHOOSE k \in 1..Len(PASSIVE_AUX) :
                    LitAt(t, i, PASSIVE_AUX[k]) /\ IsSpaceAt(t, i + Len(PASSIVE_AUX[k]))
         IN  RunWithSuffixEnd(t, SpaceRunEnd(t, i + Len(PASSIVE_AUX[k])), W_ed)
    ELSE 0

\* the position after  \s+\w+\s+  starting at p, or 0
SpaceWordSpaceEnd(t, p) ==
  IF ~IsSpaceAt(t, p) THEN 0
  ELSE LET s == SpaceRunEnd(t, p)
           e == WordRunEnd(t, s)
       IN  IF IsWordAt(t, s) /\ IsSpaceAt(t, e) THEN SpaceRunEnd(t, e) ELSE 0

\* \bby\s+\w+\s+(was|were|is|are|am|been)\b
Passive1End(t, i) ==
  IF Boundary(t, i) /\ LitAt(t, i, W_by) /\ SpaceWordSpaceEnd(t, i + 2) > 0
    THEN LET q == SpaceWordSpaceEnd(t, i + 2)
             ok == {k \in 1..Len(PASSIVE_BY_AUX) :
                      LitAt(t, q, PASSIVE_BY_AUX[k]) /\ Boundary(t, q + Len(PASSIVE_BY_AUX[k]))}
         IN  IF ok = {} THEN 0 ELSE q + Len(PASSIVE_BY_AUX[Min(ok)])
    ELSE 0

\* \b<first>\s+\w+\s+<second>\b
ConfusedPairEnd(t, i, first, second) ==
  IF Boundary(t, i) /\ LitAt(t, i, first) /\ SpaceWordSpaceEnd(t, i + Len(first)) > 0
    THEN LET q == SpaceWordSpaceEnd(t, i + Len(first))
         IN  IF LitAt(t, q, second) /\ Boundary(t, q + Len(second))
               THEN q + Len(second) ELSE 0
    ELSE 0

\* \b<word>\s+
WordSpacesEnd(t, i, word) ==
  IF Boundary(t, i) /\ LitAt(t, i, word) /\ IsSpaceAt(t, i + Len(word))
    THEN SpaceRunEnd(t, i + Len(word)) ELSE 0

\* \bit's\s+\w+\s+\w+(?!ing): the last \w+ is greedy and takes the whole run,
\* after which "ing" cannot follow
ItsPossessiveEnd(t, i) ==
  IF Boundary(t, i) /\ LitAt(t, i, W_it_s) /\ SpaceWordSpaceEnd(t, i + 4) > 0
    THEN LET q == SpaceWordSpaceEnd(t, i + 4)
         IN  IF IsWordAt(t, q) THEN WordRunEnd(t, q) ELSE 0
    ELSE 0

\* \b\w+ly\b
AdverbEnd(t, i) == IF Boundary(t, i) THEN RunWithSuffixEnd(t, i, W_ly) ELSE 0

(***************************************************************************)
(* str.split, str.strip, str.find, re.split                                *)
(***************************************************************************)
\* re.split(r'[.!?]+', text)
RECURSIVE SplitSentences(_, _, _)
SplitSentences(t, i, cur) ==
  IF i > Len(t) THEN <<cur>>
  ELSE IF IsTerminator(t[i])
    THEN <<cur>> \o SplitSentences(t, Min({j \in i..(Len(t) + 1) :
                                             j = Len(t) + 1 \/ ~IsTerminator(t[j])}), <<>>)
    ELSE SplitSentences(t, i + 1, Append(cur, t[i]))

\* str.split()
RECURSIVE SplitWords(_, _, _)
SplitWords(t, i, cur) ==
  IF i > Len(t) THEN (IF cur = <<>> THEN <<>> ELSE <<cur>>)
  ELSE IF IsSpace(t[i])
    THEN (IF cur = <<>> THEN <<>> ELSE <<cur>>) \o SplitWords(t, i + 1, <<>>)
    ELSE SplitWords(t, i + 1, Append(cur, t[i]))

split(t) == SplitWords(t, 1, <<>>)

\* str.strip()
strip(t) ==
  LET keep == {k \in 1..Len(t) : ~IsSpace(t[k])}
  IN  IF keep = {} THEN <<>>
      ELSE SubSeq(t, Min(keep), CHOOSE x \in keep : \A y \in keep : y <= x)

\* str.find: the 0-based offset of the first occurrence of w in t, or -1
find(t, w) ==
  LET at == {i \in 1..(Len(t) - Len(w) + 1) : SubSeq(t, i, i + Len(w) - 1) = w}
  IN  IF at = {} THEN -1 ELSE Min(at) - 1

(***************************************************************************)
(* The nine passes                                                         *)
(***************************************************************************)
\* WritingChecker._check_passive_voice
check_passive_voice(text) ==
  MatchIssues("passive_voice", [i \in 1..Len(text) |-> Passive0End(text, i)], text,
              <<"Consider using active voice instead">>)
  \o MatchIssues("passive_voice", [i \in 1..Len(text) |-> Passive1End(text, i)], text,
                 <<"Consider using active voice instead">>)

\* WritingChecker._check_weak_words
check_weak_words(text) ==
  Flatten([k \in 1..Len(WEAK_WORDS) |->
             MatchIssues("weak_words", WordPattern(text, WEAK_WORDS[k]), text,
                         <<"Remove ", WEAK_WORDS[k], " or replace with stronger wording">>)])

\* the loop of _check_long_sentences from the k-th sentence on, pos as the code tracks it
RECURSIVE LongSentenceLoop(_, _, _)
LongSentenceLoop(sentences, k, pos) ==
  IF k > Len(sentences) THEN <<>>
  ELSE LET sentence == sentences[k]
           words == split(sentence)
           here == IF Len(words) > 20
                     THEN << WritingIssue("long_sentences", pos, pos + Len(sentence),
                                          strip(sentence),
                                          <<"Sentence is ", Len(words),
                                            " words. Consider breaking it up.">>) >>
                     ELSE <<>>
       IN  here \o LongSentenceLoop(sentences, k + 1, pos + Len(sentence) + 1)

\* WritingChecker._check_long_sentences
check_long_sentences(text) ==
  LongSentenceLoop(SplitSentences(text, 1, <<>>), 1, 0)

\* WritingChecker._check_jargon
check_jargon(text) ==
  Flatten([k \in 1..Len(JARGON) |->
             MatchIssues("jargon", WordPattern(text, JARGON[k][1]), text,
                         <<"Use ", JARGON[k][2], " instead">>)])

\* WritingChecker._check_adjectives_adverbs
check_adjectives_adverbs(text) ==
  SelectSeq(MatchIssues("adjectives_adverbs",
                        [i \in 1..Len(text) |-> AdverbEnd(text, i)], text,
                        <<"Consider removing or replacing this adverb">>),
            LAMBDA issue : Lower(issue.text) \notin Range(ADVERB_EXCEPTIONS))

\* WritingChecker._check_simple_alternatives
check_simple_alternatives(text) ==
  Flatten([k \in 1..Len(alternatives) |->
             MatchIssues("simple_alternatives", WordPattern(text, alternatives[k][1]), text,
                         <<"Replace with ", alternatives[k][2]>>)])

\* WritingChecker._check_confused_synonyms, the patterns of CONFUSED_SYNONYMS in order
check_confused_synonyms(text) ==
  MatchIssues("confused_synonyms",
              [i \in 1..Len(text) |-> ConfusedPairEnd(text, i, W_affect, W_effect)], text,
              <<"Usually: affect (verb) = influence, effect (noun) = result">>)
  \o MatchIssues("confused_synonyms",
              [i \in 1..Len(text) |-> ConfusedPairEnd(text, i, W_effect, W_affect)], text,
              <<"Usually: effect (noun) = result, affect (verb) = influence">>)
  \o MatchIssues("confused_synonyms",
              [i \in 1..Len(text) |-> WordSpacesEnd(text, i, W_its)], text,
              <<"Did you mean it's (it is)?">>)
  \o MatchIssues("confused_synonyms",
              [i \in 1..Len(text) |-> ItsPossessiveEnd(text, i)], text,
              <<"Did you mean its (possessive)?">>)
  \o MatchIssues("confused_synonyms",
              [i \in 1..Len(text) |-> WordSpacesEnd(text, i, W_there)], text,
              <<"Did you mean their or they're?">>)

\* the loop of _check_repeated_words from index i (1-based) on
RECURSIVE RepeatedWordsLoop(_, _, _)
RepeatedWordsLoop(text, words, i) ==
  IF i > Len(words) - 1 THEN <<>>
  ELSE LET pos == find(Lower(text), Lower(words[i]))
           here == IF Lower(words[i]) = Lower(words[i + 1]) /\ pos >= 0
                     THEN << WritingIssue("repeated_words", pos,
                                          pos + Len(words[i]) + 1 + Len(words[i + 1]),
                                          words[i] \o <<" ">> \o words[i + 1],
                                          <<"Remove the repeated word">>) >>
                     ELSE <<>>
       IN  here \o RepeatedWordsLoop(text, words, i + 1)

\* WritingChecker._check_repeated_words
check_repeated_words(text) == RepeatedWordsLoop(text, split(text), 1)

\* the issues of one registry word: the k-th match carries the count k
CinnamonWordIssues(text, word) ==
  LET ms == finditer(WordPattern(text, word), text)
  IN  [k \in 1..Len(ms) |->
         WritingIssue("cinnamon_words", ms[k][1] - 1, ms[k][2] - 1,
                      SubSeq(text, ms[k][1], ms[k][2] - 1),
                      <<"Overused word (used ", k, " times)">>)]

\* _check_cinnamon_words reading the class's CINNAMON_WORDS instead of the registry
check_cinnamon_words_of_class(text, cinnamon_words) ==
  Flatten([k \in 1..Len(CINNAMON_WORDS) |-> CinnamonWordIssues(text, CINNAMON_WORDS[k])])

\* _check_cinnamon_words with count = 0 in front of the loop over the words
\* instead of inside it: the count runs on from one word to the next
check_cinnamon_words_running_count(text, cinnamon_words) ==
  LET found == [k \in 1..Len(cinnamon_words) |->
                  CinnamonWordIssues(text, cinnamon_words[k])]
      before(k) == Len(Flatten(SubSeq(found, 1, k - 1)))
  IN  Flatten([k \in 1..Len(found) |->
        [j \in 1..Len(found[k]) |->
           [found[k][j] EXCEPT
              !.suggestion = <<"Overused word (used ", before(k) + j, " times)">>]]])

\* WritingChecker._check_cinnamon_words
check_cinnamon_words(text, cinnamon_words) ==
  Flatten([k \in 1..Len(cinnamon_words) |-> CinnamonWordIssues(text, cinnamon_words[k])])

(***************************************************************************)
(* ReadabilityAnalyzer (readability.py).  A score is an exact fraction     *)
(* <<numerator, denominator>>; a reported value is the integer its         *)
(* rounding gives, counted in tenths for round(x, 1) and in hundredths for *)
(* round(x, 2).  analyze is the set of the dictionaries the call can       *)
(* return: one, unless an exact value sits on a rounding or level limit.   *)
(***************************************************************************)
\* ReadabilityAnalyzer._empty_analysis
empty_analysis ==
  [sentences |-> 0, words |-> 0, syllables |-> 0, characters |-> 0,
   flesch_kincaid_grade |-> 0, flesch_reading_ease |-> 0, gunning_fog |-> 0,
   avg_grade |-> 0, difficulty |-> "N/A", avg_word_length |-> 0,
   avg_sentence_length |-> 0]

\* what analyze leaves with when a division has a zero divisor
ZeroDivisionError == [exception |-> "ZeroDivisionError"]

\* ReadabilityAnalyzer._count_sentences
count_sentences(text) ==
  LET sentences == SplitSentences(text, 1, <<>>)
  IN  Cardinality({k \in 1..Len(sentences) : strip(sentences[k]) # <<>>})

\* ReadabilityAnalyzer._count_words
count_words(text) == Len(split(text))

\* the characters of 'aeiouy'
vowels == {"a", "e", "i", "o", "u", "y"}

\* ReadabilityAnalyzer._count_syllables: the vowel groups of the lowered text,
\* one less if it ends with 'e', at least 1
count_syllables(text) ==
  LET t == Lower(text)
      groups == Cardinality({k \in 1..Len(t) :
                               t[k] \in vowels /\ (k = 1 \/ t[k - 1] \notin vowels)})
      silent_e == IF Len(t) > 0 /\ t[Len(t)] = "e" THEN groups - 1 ELSE groups
      syllable_count == IF silent_e = 0 THEN 1 ELSE silent_e
  IN  IF syllable_count > 1 THEN syllable_count ELSE 1

\* ReadabilityAnalyzer._flesch_kincaid_grade:
\* max(0, 0.39 * (words / sentences) + 11.8 * (syllables / words) - 15.59),
\* over the denominator 100 * sentences * words
flesch_kincaid_grade(sentences, words, syllables) ==
  IF sentences = 0 \/ words = 0 THEN <<0, 1>>
  ELSE LET grade == 39 * words * words + 1180 * syllables * sentences
                      - 1559 * sentences * words
       IN  <<IF grade > 0 THEN grade ELSE 0, 100 * sentences * words>>

\* _flesch_reading_ease without max(0, min(100, ...))
flesch_reading_ease_unclamped(sentences, words, syllables) ==
  IF sentences = 0 \/ words = 0 THEN <<0, 1>>
  ELSE <<206835 * sentences * words - 1015 * words * words
           - 84600 * syllables * sentences,
         1000 * sentences * words>>

\* ReadabilityAnalyzer._flesch_reading_ease:
\* max(0, min(100, 206.835 - 1.015 * (words / sentences) - 84.6 * (syllables / words))),
\* over the denominator 1000 * sentences * words
flesch_reading_ease(sentences, words, syllables) ==
  IF sentences = 0 \/ words = 0 THEN <<0, 1>>
  ELSE LET d == 1000 * sentences * words
           score == 206835 * sentences * words - 1015 * words * words
                      - 84600 * syllables * sentences
       IN  <<IF score < 0 THEN 0 ELSE IF score > 100 * d THEN 100 * d ELSE score, d>>

\* the words of 3 or more syllables
complex_words(text) ==
  LET word_list == split(text)
  IN  Cardinality({k \in 1..Len(word_list) : count_syllables(word_list[k]) >= 3})

\* ReadabilityAnalyzer._gunning_fog_index:
\* max(0, 0.4 * ((words / sentences) + 100 * (complex_words / words))),
\* over the denominator 10 * sentences * words
gunning_fog_index(sentences, words, text) ==
  IF sentences = 0 \/ words = 0 THEN <<0, 1>>
  ELSE LET index == 4 * (words * words + 100 * complex_words(text) * sentences)
       IN  <<IF index > 0 THEN index ELSE 0, 10 * sentences * words>>

\* GRADE_LEVELS
GRADE_LEVELS ==
  <<[level |-> "Elementary", min_grade |-> 0, max_grade |-> 6],
    [level |-> "Middle School", min_grade |-> 6, max_grade |-> 9],
    [level |-> "High School", min_grade |-> 9, max_grade |-> 13],
    [level |-> "College", min_grade |-> 13, max_grade |-> 16]>>

\* ReadabilityAnalyzer._get_difficulty_level for the fraction grade: the first
\* level with min_grade <= grade < max_grade, 'Graduate' if there is none
\* (the fifth level, (16, inf), is 'Graduate' as well)
level_of(grade) ==
  LET fit == {k \in 1..Len(GRADE_LEVELS) :
                /\ GRADE_LEVELS[k].min_grade * grade[2] <= grade[1]
                /\ grade[1] < GRADE_LEVELS[k].max_grade * grade[2]}
  IN  IF fit = {} THEN "Graduate" ELSE GRADE_LEVELS[Min(fit)].level

\* The program computes in binary floating point, whose error the fractions do
\* not carry.  It decides the outcome where the exact value sits on a limit: a
\* grade that is exactly the limit of two levels is a float at, just below or
\* just above the limit, so the level is the one below or the one above.
get_difficulty_level(grade) ==
  {level_of(grade)}
    \cup {GRADE_LEVELS[k].level : k \in {j \in 1..Len(GRADE_LEVELS) :
                                          grade[1] = GRADE_LEVELS[j].max_grade * grade[2]}}

\* round(x, ndigits) of a fraction x >= 0, as integer counts of 10^-ndigits:
\* the nearest count; for an x exactly half way between two counts the float is
\* at, just below or just above the half, so either count
round(x, ndigits) ==
  LET n == x[1] * (IF ndigits = 1 THEN 10 ELSE 100)
      q == n \div x[2]
      r == n % x[2]
  IN  IF 2 * r < x[2] THEN {q}
      ELSE IF 2 * r > x[2] THEN {q + 1}
      ELSE {q, q + 1}

\* lines 38-65 of analyze: the scores and the dictionaries it can return
metrics(text, sentences, words, syllables) ==
  LET fk == flesch_kincaid_grade(sentences, words, syllables)
      fre == flesch_reading_ease(sentences, words, syllables)
      fog == gunning_fog_index(sentences, words, text)
      \* (flesch_kincaid_grade + gunning_fog) / 2
      avg_grade == <<fk[1] * fog[2] + fog[1] * fk[2], 2 * fk[2] * fog[2]>>
      avg_word_length == IF text # <<>> THEN <<100 * words, Len(text)>> ELSE <<0, 1>>
      avg_sentence_length == IF sentences > 0 THEN <<words, sentences>> ELSE <<0, 1>>
  IN  IF \E x \in {fk, fre, fog, avg_grade, avg_word_length, avg_sentence_length} : x[2] = 0
        THEN {ZeroDivisionError}
        ELSE {[sentences |-> sentences, words |-> words, syllables |-> syllables,
               characters |-> Len(text),
               flesch_kincaid_grade |-> r_fk,
               flesch_reading_ease |-> r_fre,
               gunning_fog |-> r_fog,
               avg_grade |-> r_avg,
               difficulty |-> difficulty,
               avg_word_length |-> r_awl,
               avg_sentence_length |-> r_asl] :
                 r_fk \in round(fk, 1), r_fre \in round(fre, 1), r_fog \in round(fog, 1),
                 r_avg \in round(avg_grade, 1),
                 difficulty \in get_difficulty_level(avg_grade),
                 r_awl \in round(avg_word_length, 2),
                 r_asl \in round(avg_sentence_length, 1)}

\* analyze without the test of line 35 for zero sentences or zero words
analyze_unguarded(text) ==
  IF text = <<>> \/ Len(strip(text)) = 0 THEN {empty_analysis}
  ELSE metrics(text, count_sentences(text), count_words(text), count_syllables(text))

\* ReadabilityAnalyzer.analyze: the dictionaries it can return for text
analyze(text) ==
  IF text = <<>> \/ Len(strip(text)) = 0 THEN {empty_analysis}
  ELSE LET sentences == count_sentences(text)
           words == count_words(text)
           syllables == count_syllables(text)
       IN  IF sentences = 0 \/ words = 0 THEN {empty_analysis}
           ELSE metrics(text, sentences, words, syllables)

(***************************************************************************)
(* check_text                                                              *)
(***************************************************************************)
\* list.sort(key=lambda x: x.start): a stable sort, built by inserting each
\* issue behind the issues whose start is not larger
RECURSIVE InsertByStart(_, _)
InsertByStart(sorted, issue) ==
  IF sorted = <<>> THEN <<issue>>
  ELSE IF sorted[Len(sorted)].start <= issue.start THEN Append(sorted, issue)
  ELSE Append(InsertByStart(SubSeq(sorted, 1, Len(sorted) - 1), issue), sorted[Len(sorted)])

\* the sort left out
sort_by_start_omitted(issues) == issues

RECURSIVE SortPrefix(_, _)
SortPrefix(issues, n) ==
  IF n = 0 THEN <<>> ELSE InsertByStart(SortPrefix(issues, n - 1), issues[n])

\* a sort by start that puts issues of equal start in reverse order
sort_by_start_ties_reversed(issues) ==
  SortPrefix([k \in 1..Len(issues) |-> issues[Len(issues) + 1 - k]], Len(issues))

sort_by_start(issues) == SortPrefix(issues, Len(issues))

\* the collection with the jargon pass run whether enabled or not
collect_issues_jargon_always(text, enabled_checks, cinnamon_words) ==
  (IF enabled_checks["passive_voice"] THEN check_passive_voice(text) ELSE <<>>)
  \o (IF enabled_checks["weak_words"] THEN check_weak_words(text) ELSE <<>>)
  \o (IF enabled_checks["long_sentences"] THEN check_long_sentences(text) ELSE <<>>)
  \o check_jargon(text)
  \o (IF enabled_checks["adjectives_adverbs"] THEN check_adjectives_adverbs(text) ELSE <<>>)
  \o (IF enabled_checks["simple_alternatives"] THEN check_simple_alternatives(text) ELSE <<>>)
  \o (IF enabled_checks["confused_synonyms"] THEN check_confused_synonyms(text) ELSE <<>>)
  \o (IF enabled_checks["repeated_words"] THEN check_repeated_words(text) ELSE <<>>)
  \o (IF enabled_checks["cinnamon_words"]
        THEN check_cinnamon_words(text, cinnamon_words) ELSE <<>>)

\* the issues check_text collects from the enabled passes, before the sort
collect_issues(text, enabled_checks, cinnamon_words) ==
  (IF enabled_checks["passive_voice"] THEN check_passive_voice(text) ELSE <<>>)
  \o (IF enabled_checks["weak_words"] THEN check_weak_words(text) ELSE <<>>)
  \o (IF enabled_checks["long_sentences"] THEN check_long_sentences(text) ELSE <<>>)
  \o (IF enabled_checks["jargon"] THEN check_jargon(text) ELSE <<>>)
  \o (IF enabled_checks["adjectives_adverbs"] THEN check_adjectives_adverbs(text) ELSE <<>>)
  \o (IF enabled_checks["simple_alternatives"] THEN check_simple_alternatives(text) ELSE <<>>)
  \o (IF enabled_checks["confused_synonyms"] THEN check_confused_synonyms(text) ELSE <<>>)
  \o (IF enabled_checks["repeated_words"] THEN check_repeated_words(text) ELSE <<>>)
  \o (IF enabled_checks["cinnamon_words"]
        THEN check_cinnamon_words(text, cinnamon_words) ELSE <<>>)

\* the first component of WritingChecker.check_text
check_text_issues(text, enabled_checks, cinnamon_words) ==
  sort_by_start(collect_issues(text, enabled_checks, cinnamon_words))

\* WritingChecker.check_text: the (issues, readability_data) pairs it can return
check_text(text, enabled_checks, cinnamon_words) ==
  {<<check_text_issues(text, enabled_checks, cinnamon_words), readability_data>> :
     readability_data \in analyze(text)}

(***************************************************************************)
(* The application: WordProcessor (keep_me_honest.py) with its             *)
(* WritingChecker, its WritingCheckerDock and the text editor.             *)
(***************************************************************************)
VARIABLES
  writing_checker_visible, \* WordProcessor.writing_checker_visible
  timer_active,            \* check_timer.isActive(): TRUE is Pending, FALSE is Idle
  text,                    \* text_edit.toPlainText()
  has_selection,           \* text_edit.textCursor().hasSelection()
  enabled_checks,          \* WritingChecker.enabled_checks
  cinnamon_words,          \* WritingChecker.cinnamon_words
  cinnamon_list,           \* the words shown in WritingCheckerDock.cinnamon_list
  issues,                  \* WritingCheckerDock.issues
  current_issue_index,     \* WritingCheckerDock.current_issue_index
  highlighted,             \* the issues whose spans carry a highlight format
  removed_issue,           \* the issue on_ignore_issue popped last
  check_text_calls,        \* number of check_text calls made by run_writing_check
  scanned_text,            \* the text given to the last of them
  raised,                  \* the last handler ended with an exception
  alive,                   \* the process is running
  handler,                 \* <<name, argument>> of the last handler that ran
  burst,                   \* text-change notifications since the timer was last idle
  timer_was_active,        \* timer_active when the last handler started
  index_was,               \* current_issue_index when the last handler started
  registry_was,            \* cinnamon_words when the last handler started
  returned,                \* the issue list returned by the last direct check_text call
  readability_data         \* the dictionary returned by the last direct check_text or
                           \* analyze call

vars ==
  <<writing_checker_visible, timer_active, text, has_selection, enabled_checks,
    cinnamon_words, cinnamon_list, issues, current_issue_index, highlighted,
    removed_issue, check_text_calls, scanned_text, raised, alive, handler, burst,
    timer_was_active, index_was, registry_was, returned, readability_data>>

(***************************************************************************)
(* Bounds and inputs                                                       *)
(***************************************************************************)
MaxBurst == 2

MaxCalls == 2

MaxTokens == 2

MaxIndex == 2

MaxDisabled == 1

NoArg == -9

NoIssue == WritingIssue("", -1, -1, <<>>, <<>>)

NoText == <<"(none)">>

T_very_good == <<"v","e","r","y"," ","g","o","o","d">>
T_was_asked == <<"I","t"," ","w","a","s"," ","a","s","k","e","d",".">>

\* the document contents the editing steps choose from
DocTexts == {<<>>, T_very_good, T_was_asked}

\* the words typed into the dock's cinnamon input
WordInputs == {<<" ","V","e","r","y">>}

\* the shown cinnamon words the steps double-click
RemoveInputs == {<<"v","e","r","y">>}

\* the check boxes the steps click
CheckTypeInputs == {"cinnamon_words"}

(***************************************************************************)
(* The state the handlers work on, as one record                           *)
(***************************************************************************)
state ==
  [writing_checker_visible |-> writing_checker_visible,
   timer_active |-> timer_active,
   text |-> text,
   has_selection |-> has_selection,
   enabled_checks |-> enabled_checks,
   cinnamon_words |-> cinnamon_words,
   cinnamon_list |-> cinnamon_list,
   issues |-> issues,
   current_issue_index |-> current_issue_index,
   highlighted |-> highlighted,
   removed_issue |-> removed_issue,
   check_text_calls |-> check_text_calls,
   scanned_text |-> scanned_text,
   exc |-> FALSE]

\* an exception leaves the handler; what was assigned before stays
raise(s) == [s EXCEPT !.exc = TRUE]

\* the attributes WordProcessor.__init__ and init_ui (with the menu and
\* toolbar builders) assign on self
WordProcessorAttributes ==
  {"current_file", "find_dialog", "font_manager", "favorite_fonts",
   "spell_check_enabled", "writing_checker", "writing_checker_visible",
   "check_timer", "text_edit", "highlighter", "writing_checker_dock",
   "writing_check_action", "spell_check_action", "font_combo", "font_size"}

\* the methods WritingCheckerDock defines that run_writing_check may call
WritingCheckerDockMethods ==
  {"set_issues", "show_issue", "set_cinnamon_words", "set_readability_grade",
   "set_selection_readability"}

(***************************************************************************)
(* WritingChecker: registry and configuration                              *)
(***************************************************************************)
\* add_cinnamon_word without word.lower()
add_cinnamon_word_as_typed(s, word) ==
  IF word \notin Range(s.cinnamon_words)
    THEN [s EXCEPT !.cinnamon_words = Append(@, word)]
    ELSE s

\* WritingChecker.add_cinnamon_word
add_cinnamon_word(s, word) ==
  IF Lower(word) \notin Range(s.cinnamon_words)
    THEN [s EXCEPT !.cinnamon_words = Append(@, Lower(word))]
    ELSE s

\* list.remove: drops the first element equal to x
list_remove(l, x) ==
  LET k == Min({j \in 1..Len(l) : l[j] = x})
  IN  SubSeq(l, 1, k - 1) \o SubSeq(l, k + 1, Len(l))

\* remove_cinnamon_word without the membership test: list.remove raises
\* ValueError for a word that is not in the list
remove_cinnamon_word_unguarded(s, word) ==
  IF Lower(word) \in Range(s.cinnamon_words)
    THEN [s EXCEPT !.cinnamon_words = list_remove(@, Lower(word))]
    ELSE raise(s)

\* WritingChecker.remove_cinnamon_word
remove_cinnamon_word(s, word) ==
  IF Lower(word) \in Range(s.cinnamon_words)
    THEN [s EXCEPT !.cinnamon_words = list_remove(@, Lower(word))]
    ELSE s

\* set_check_enabled that stores the flag under any name
set_check_enabled_any_name(s, check_type, enabled) ==
  [s EXCEPT !.enabled_checks =
     [n \in DOMAIN @ \cup {check_type} |-> IF n = check_type THEN enabled ELSE @[n]]]

\* WritingChecker.set_check_enabled
set_check_enabled(s, check_type, enabled) ==
  IF check_type \in DOMAIN s.enabled_checks
    THEN [s EXCEPT !.enabled_checks[check_type] = enabled]
    ELSE s

(***************************************************************************)
(* WritingHighlighter and WritingCheckerDock                               *)
(***************************************************************************)
\* WritingHighlighter.highlight_issues: the cursor moved to the start is set on
\* the editor (the selection is gone), all formats are cleared, the issues' spans
\* are formatted
highlight_issues(s, list) ==
  [s EXCEPT !.has_selection = FALSE, !.highlighted = list]

\* WritingCheckerDock.show_issue
show_issue(s, idx) ==
  IF 0 <= idx /\ idx < Len(s.issues)
    THEN [s EXCEPT !.current_issue_index = idx]
    ELSE s

\* WritingCheckerDock.on_issue_selected, for the list item carrying index idx
on_issue_selected(s, idx) ==
  show_issue([s EXCEPT !.current_issue_index = idx], idx)

\* sorted(issue_groups.keys())
SortedTypes ==
  <<"adjectives_adverbs", "cinnamon_words", "confused_synonyms", "jargon",
    "long_sentences", "passive_voice", "repeated_words", "simple_alternatives",
    "weak_words">>

\* the index stored in row 0 of issues_list: the first issue of the first type
FirstRowIndex(list) ==
  LET ty == SortedTypes[Min({k \in 1..Len(SortedTypes) :
                               \E j \in 1..Len(list) : list[j].issue_type = SortedTypes[k]})]
  IN  Min({j \in 1..Len(list) : list[j].issue_type = ty}) - 1

\* set_issues without setCurrentRow(0) and show_issue(0): the list is replaced
\* and the current position is left as it was
set_issues_keep_position(s, list) == [s EXCEPT !.issues = list]

\* WritingCheckerDock.set_issues: setCurrentRow(0) selects row 0, which runs
\* on_issue_selected, then show_issue(0)
set_issues(s, list) ==
  LET s1 == [s EXCEPT !.issues = list]
  IN  IF list # <<>>
        THEN show_issue(on_issue_selected(s1, FirstRowIndex(list)), 0)
        ELSE s1

\* show_next_issue without the modulo
show_next_issue_no_wrap(s) ==
  IF s.issues # <<>>
    THEN show_issue(s, s.current_issue_index + 1)
    ELSE s

\* WritingCheckerDock.show_next_issue
show_next_issue(s) ==
  IF s.issues # <<>>
    THEN show_issue(s, (s.current_issue_index + 1) % Len(s.issues))
    ELSE s

\* WritingCheckerDock.show_previous_issue
show_previous_issue(s) ==
  IF s.issues # <<>>
    THEN show_issue(s, (s.current_issue_index - 1) % Len(s.issues))
    ELSE s

\* WritingCheckerDock.set_cinnamon_words
set_cinnamon_words(s, words) == [s EXCEPT !.cinnamon_list = Range(words)]

(***************************************************************************)
(* WordProcessor: the writing checker methods                              *)
(***************************************************************************)
check_timer_stop(s) == [s EXCEPT !.timer_active = FALSE]

check_timer_start(s) == [s EXCEPT !.timer_active = TRUE]

\* run_writing_check without its first statement, check_timer.stop()
run_writing_check_no_stop(s) == raise(s)

\* WordProcessor.run_writing_check.  The timer is stopped; then line 109 reads
\* self.readability, which no method of WordProcessor assigns: AttributeError.
\* Past that line the code calls check_text, then dock.set_readability, which
\* WritingCheckerDock does not define: AttributeError; past that one it hands
\* the (issues, readability) pair check_text returns to set_issues, which stores
\* it and fails on the pair's first element, a list without issue_type.
run_writing_check(s) ==
  LET s1 == check_timer_stop(s)
  IN  IF "readability" \notin WordProcessorAttributes THEN raise(s1)
      ELSE LET s2 == [s1 EXCEPT !.check_text_calls = IF @ < MaxCalls THEN @ + 1 ELSE @,
                                !.scanned_text = s1.text]
               pair == <<check_text_issues(s1.text, s1.enabled_checks, s1.cinnamon_words),
                         "readability_data">>
           IN  IF "set_readability" \notin WritingCheckerDockMethods THEN raise(s2)
               ELSE raise([s2 EXCEPT !.issues = pair])

\* toggle_writing_checker that leaves the timer running when the feature goes off
toggle_writing_checker_no_stop(s) ==
  LET s1 == [s EXCEPT !.writing_checker_visible = ~@]
  IN  IF s1.writing_checker_visible
        THEN LET s2 == run_writing_check(s1)
             IN  IF s2.exc THEN s2 ELSE check_timer_start(s2)
        ELSE highlight_issues(s1, <<>>)

\* toggle_writing_checker that also empties the dock's list when the feature goes off
toggle_writing_checker_clears_store(s) ==
  LET s1 == [s EXCEPT !.writing_checker_visible = ~@]
  IN  IF s1.writing_checker_visible
        THEN LET s2 == run_writing_check(s1)
             IN  IF s2.exc THEN s2 ELSE check_timer_start(s2)
        ELSE set_issues(highlight_issues(check_timer_stop(s1), <<>>), <<>>)

\* toggle_writing_checker that builds a fresh WritingChecker when the feature goes off
toggle_writing_checker_resets_checker(s) ==
  LET s1 == [s EXCEPT !.writing_checker_visible = ~@]
  IN  IF s1.writing_checker_visible
        THEN LET s2 == run_writing_check(s1)
             IN  IF s2.exc THEN s2 ELSE check_timer_start(s2)
        ELSE [highlight_issues(check_timer_stop(s1), <<>>)
                EXCEPT !.enabled_checks = [n \in DOMAIN @ |-> TRUE],
                       !.cinnamon_words = CINNAMON_WORDS]

\* WordProcessor.toggle_writing_checker
toggle_writing_checker(s) ==
  LET s1 == [s EXCEPT !.writing_checker_visible = ~@]
  IN  IF s1.writing_checker_visible
        THEN LET s2 == run_writing_check(s1)
             IN  IF s2.exc THEN s2 ELSE check_timer_start(s2)
        ELSE highlight_issues(check_timer_stop(s1), <<>>)

\* WordProcessor.schedule_writing_check
schedule_writing_check(s) ==
  IF s.writing_checker_visible
    THEN check_timer_start(check_timer_stop(s))
    ELSE s

\* WordProcessor.update_selection_readability: with a selection it reads
\* self.readability (AttributeError); without one it writes the fixed label
update_selection_readability(s) ==
  IF ~s.writing_checker_visible THEN s
  ELSE IF s.has_selection
    THEN (IF "readability" \notin WordProcessorAttributes THEN raise(s) ELSE s)
    ELSE s

\* WordProcessor.on_check_type_changed
on_check_type_changed(s, check_type, enabled) ==
  run_writing_check(set_check_enabled(s, check_type, enabled))

\* list.pop(i), the remaining list
pop(l, i) == SubSeq(l, 1, i) \o SubSeq(l, i + 2, Len(l))

\* on_ignore_issue without the final show_issue(next_index)
on_ignore_issue_no_show(s, issue_index) ==
  IF 0 <= issue_index /\ issue_index < Len(s.issues)
    THEN LET rest == pop(s.issues, issue_index)
             s1 == [s EXCEPT !.removed_issue = s.issues[issue_index + 1], !.issues = rest]
         IN  set_issues(highlight_issues(s1, rest), rest)
    ELSE s

\* on_ignore_issue without the bounds check: list.pop raises IndexError for an
\* index that is out of range
on_ignore_issue_unguarded(s, issue_index) ==
  IF 0 <= issue_index /\ issue_index < Len(s.issues)
    THEN LET rest == pop(s.issues, issue_index)
             s1 == [s EXCEPT !.removed_issue = s.issues[issue_index + 1], !.issues = rest]
             s2 == set_issues(highlight_issues(s1, rest), rest)
         IN  IF rest # <<>>
               THEN show_issue(s2, IF issue_index < Len(rest) - 1
                                     THEN issue_index ELSE Len(rest) - 1)
               ELSE s2
    ELSE raise(s)

\* WordProcessor.on_ignore_issue
on_ignore_issue(s, issue_index) ==
  IF 0 <= issue_index /\ issue_index < Len(s.issues)
    THEN LET rest == pop(s.issues, issue_index)
             s1 == [s EXCEPT !.removed_issue = s.issues[issue_index + 1], !.issues = rest]
             s2 == set_issues(highlight_issues(s1, rest), rest)
         IN  IF rest # <<>>
               THEN show_issue(s2, IF issue_index < Len(rest) - 1
                                     THEN issue_index ELSE Len(rest) - 1)
               ELSE s2
    ELSE s

\* WritingCheckerDock.ignore_current_issue, the signal delivered to on_ignore_issue
ignore_current_issue(s) ==
  IF 0 <= s.current_issue_index /\ s.current_issue_index < Len(s.issues)
    THEN on_ignore_issue(s, s.current_issue_index)
    ELSE s

\* WordProcessor.on_add_cinnamon_word
on_add_cinnamon_word(s, word) ==
  LET s1 == add_cinnamon_word(s, word)
  IN  run_writing_check(set_cinnamon_words(s1, s1.cinnamon_words))

\* WordProcessor.on_remove_cinnamon_word
on_remove_cinnamon_word(s, word) ==
  LET s1 == remove_cinnamon_word(s, word)
  IN  run_writing_check(set_cinnamon_words(s1, s1.cinnamon_words))

\* WritingCheckerDock.add_cinnamon, the signal delivered to on_add_cinnamon_word
add_cinnamon(s, input) ==
  IF strip(input) # <<>> THEN on_add_cinnamon_word(s, strip(input)) ELSE s

(***************************************************************************)
(* Steps of the event loop                                                 *)
(***************************************************************************)
\* one handler has run and left the state s.  An exception that leaves a slot
\* is reported and the loop goes on, or it ends the process: which one depends
\* on the PyQt5 release the program runs with.
DispatchCore(name, arg, s, result, analysis) ==
  /\ writing_checker_visible' = s.writing_checker_visible
  /\ timer_active' = s.timer_active
  /\ text' = s.text
  /\ has_selection' = s.has_selection
  /\ enabled_checks' = s.enabled_checks
  /\ cinnamon_words' = s.cinnamon_words
  /\ cinnamon_list' = s.cinnamon_list
  /\ issues' = s.issues
  /\ current_issue_index' = s.current_issue_index
  /\ highlighted' = s.highlighted
  /\ removed_issue' = s.removed_issue
  /\ check_text_calls' = s.check_text_calls
  /\ scanned_text' = s.scanned_text
  /\ raised' = s.exc
  /\ alive' \in (IF s.exc THEN BOOLEAN ELSE {TRUE})
  /\ handler' = <<name, arg>>
  /\ burst' = IF ~s.timer_active THEN 0
              ELSE IF name = "schedule_writing_check" /\ burst < MaxBurst THEN burst + 1
              ELSE burst
  /\ timer_was_active' = timer_active
  /\ index_was' = current_issue_index
  /\ registry_was' = cinnamon_words
  /\ returned' = result
  /\ readability_data' = analysis

Dispatch(name, arg, s) == DispatchCore(name, arg, s, returned, readability_data)

\* the dock is shown by toggle_writing_checker when the feature goes on and
\* hidden when it goes off; its buttons and lists answer only while it is shown
DockShown == writing_checker_visible

\* text_edit.textChanged: the document is edited (or reformatted), then the
\* connected slot schedule_writing_check runs
TextChanged(t) ==
  /\ alive
  /\ Dispatch("schedule_writing_check", NoArg,
              schedule_writing_check([state EXCEPT !.text = t]))

\* text_edit.selectionChanged, connected to update_selection_readability
SelectionChanged(b) ==
  /\ alive
  /\ b # has_selection
  /\ Dispatch("update_selection_readability", NoArg,
              update_selection_readability([state EXCEPT !.has_selection = b]))

\* writing_check_action.triggered
ToggleWritingChecker ==
  /\ alive
  /\ Dispatch("toggle_writing_checker", NoArg, toggle_writing_checker(state))

\* check_timer.timeout, connected to run_writing_check
Timeout ==
  /\ alive
  /\ timer_active
  /\ Dispatch("timeout", NoArg, run_writing_check(state))

\* dock.refresh_requested, connected to run_writing_check
RefreshRequested ==
  /\ alive
  /\ DockShown
  /\ Dispatch("refresh_requested", NoArg, run_writing_check(state))

\* a check box of the dock changes state: check_type_changed(name, new state)
CheckTypeChanged(check_type) ==
  /\ alive
  /\ DockShown
  /\ Dispatch("on_check_type_changed", NoArg,
              on_check_type_changed(state, check_type, ~enabled_checks[check_type]))

\* the dock's "Ignore This" button
IgnoreCurrentIssue ==
  /\ alive
  /\ DockShown
  /\ Dispatch("ignore_current_issue", current_issue_index, ignore_current_issue(state))

\* the dock's "Next" button
ShowNextIssue ==
  /\ alive
  /\ DockShown
  /\ Dispatch("show_next_issue", NoArg, show_next_issue(state))

\* the dock's "Previous" button
ShowPreviousIssue ==
  /\ alive
  /\ DockShown
  /\ Dispatch("show_previous_issue", NoArg, show_previous_issue(state))

\* the dock's "+" button with input typed into cinnamon_input
AddCinnamon(input) ==
  /\ alive
  /\ DockShown
  /\ Dispatch("add_cinnamon", NoArg, add_cinnamon(state, input))

\* WritingCheckerDock.remove_cinnamon: a double click on a shown word
RemoveCinnamon(word) ==
  /\ alive
  /\ DockShown
  /\ word \in cinnamon_list
  /\ Dispatch("remove_cinnamon", NoArg, on_remove_cinnamon_word(state, word))

\* WordProcessor.__init__ and WritingChecker.__init__, WritingCheckerDock.__init__
Init ==
  /\ writing_checker_visible = FALSE
  /\ timer_active = FALSE
  /\ text = <<>>
  /\ has_selection = FALSE
  /\ enabled_checks = [n \in Range(PassNames) |-> TRUE]
  /\ cinnamon_words = CINNAMON_WORDS
  /\ cinnamon_list = {}
  /\ issues = <<>>
  /\ current_issue_index = 0
  /\ highlighted = <<>>
  /\ removed_issue = NoIssue
  /\ check_text_calls = 0
  /\ scanned_text = NoText
  /\ raised = FALSE
  /\ alive = TRUE
  /\ handler = <<"__init__", NoArg>>
  /\ burst = 0
  /\ timer_was_active = FALSE
  /\ index_was = 0
  /\ registry_was = CINNAMON_WORDS
  /\ returned = <<>>
  /\ readability_data = empty_analysis

Next ==
  \/ \E t \in DocTexts : TextChanged(t)
  \/ \E b \in BOOLEAN : SelectionChanged(b)
  \/ ToggleWritingChecker
  \/ Timeout
  \/ RefreshRequested
  \/ \E check_type \in CheckTypeInputs : CheckTypeChanged(check_type)
  \/ IgnoreCurrentIssue
  \/ ShowNextIssue
  \/ ShowPreviousIssue
  \/ \E input \in WordInputs : AddCinnamon(input)
  \/ \E word \in RemoveInputs : RemoveCinnamon(word)

Spec == Init /\ [][Next]_vars

\* check_timer is a single-shot QTimer of the running event loop: once started
\* and neither stopped nor restarted for its interval, it delivers timeout.
\* An armed timer whose timeout stays possible does fire.
SpecLive == Init /\ [][Next]_vars /\ WF_vars(Timeout)

(***************************************************************************)
(* The Issue Track Store driven directly: besides the steps of the event   *)
(* loop that touch the timer or the store, calls of the dock's set_issues  *)
(* with the issue list check_text returns for the document, clicks on the  *)
(* rows set_issues then shows, and calls of on_ignore_issue and of         *)
(* show_issue with any index.                                              *)
(***************************************************************************)
\* the indexes handed to on_ignore_issue and to show_issue
IndexInputs == (-1)..MaxIndex

\* WritingCheckerDock.set_issues(issues) with issues = check_text(text)[0]
DockSetIssues ==
  /\ alive
  /\ Dispatch("set_issues", NoArg,
              set_issues(state, check_text_issues(text, enabled_checks, cinnamon_words)))

\* a click on the row of issues_list that carries index idx
IssueSelected(idx) ==
  /\ alive
  /\ DockShown
  /\ 0 <= idx /\ idx < Len(issues)
  /\ Dispatch("on_issue_selected", idx, on_issue_selected(state, idx))

\* the slot on_ignore_issue called with issue_index
OnIgnoreIssue(issue_index) ==
  /\ alive
  /\ Dispatch("on_ignore_issue", issue_index, on_ignore_issue(state, issue_index))

\* WritingCheckerDock.show_issue(idx) called with any index
ShowIssue(idx) ==
  /\ alive
  /\ Dispatch("show_issue", idx, show_issue(state, idx))

NextStore ==
  \/ \E t \in DocTexts : TextChanged(t)
  \/ ToggleWritingChecker
  \/ Timeout
  \/ RefreshRequested
  \/ IgnoreCurrentIssue
  \/ ShowNextIssue
  \/ ShowPreviousIssue
  \/ DockSetIssues
  \/ \E idx \in 0..MaxIndex : IssueSelected(idx)
  \/ \E issue_index \in IndexInputs : OnIgnoreIssue(issue_index)
  \/ \E idx \in IndexInputs : ShowIssue(idx)

SpecStore == Init /\ [][NextStore]_vars

(***************************************************************************)
(* WritingChecker called directly: a fresh checker, one text, and calls of *)
(* its public methods.                                                     *)
(***************************************************************************)
Tok_very == <<"v","e","r","y"," ">>
Tok_Very == <<"V","e","r","y"," ">>
Tok_was_asked == <<"w","a","s"," ","a","s","k","e","d"," ">>
Tok_quickly == <<"q","u","i","c","k","l","y","."," ">>
Tok_its == <<"i","t","s"," ">>

Tokens == {Tok_very, Tok_Very, Tok_was_asked, Tok_quickly, Tok_its}

\* the texts made of at most n tokens
RECURSIVE TokenTexts(_)
TokenTexts(n) ==
  IF n = 0 THEN {<<>>}
  ELSE TokenTexts(n - 1) \cup {t \o k : t \in TokenTexts(n - 1), k \in Tokens}

CheckTexts == TokenTexts(MaxTokens)

\* the names handed to set_check_enabled
CheckNameInputs == {"cinnamon_words", "spelling"}

\* the words handed to add_cinnamon_word and remove_cinnamon_word
RegistryInputs == {<<"I","t","s">>}

InitCheck ==
  /\ writing_checker_visible = FALSE
  /\ timer_active = FALSE
  /\ text \in CheckTexts
  /\ has_selection = FALSE
  /\ enabled_checks = [n \in Range(PassNames) |-> TRUE]
  /\ cinnamon_words = CINNAMON_WORDS
  /\ cinnamon_list = {}
  /\ issues = <<>>
  /\ current_issue_index = 0
  /\ highlighted = <<>>
  /\ removed_issue = NoIssue
  /\ check_text_calls = 0
  /\ scanned_text = NoText
  /\ raised = FALSE
  /\ alive = TRUE
  /\ handler = <<"__init__", NoArg>>
  /\ burst = 0
  /\ timer_was_active = FALSE
  /\ index_was = 0
  /\ registry_was = CINNAMON_WORDS
  /\ returned = <<>>
  /\ readability_data = empty_analysis

\* WritingChecker.check_text(text)
CallCheckText ==
  /\ alive
  /\ \E result \in check_text(text, enabled_checks, cinnamon_words) :
       IF result[2] = ZeroDivisionError
         THEN Dispatch("check_text", NoArg, raise(state))
         ELSE DispatchCore("check_text", NoArg, state, result[1], result[2])

\* WritingChecker.set_check_enabled(check_type, enabled), with at most
\* MaxDisabled passes disabled at a time
CallSetCheckEnabled(check_type, enabled) ==
  /\ alive
  /\ Dispatch("set_check_enabled", check_type,
              set_check_enabled(state, check_type, enabled))
  /\ Cardinality({n \in DOMAIN enabled_checks' : ~enabled_checks'[n]}) <= MaxDisabled

\* WritingChecker.add_cinnamon_word(word)
CallAddCinnamonWord(word) ==
  /\ alive
  /\ Dispatch("add_cinnamon_word", word, add_cinnamon_word(state, word))

\* WritingChecker.remove_cinnamon_word(word)
CallRemoveCinnamonWord(word) ==
  /\ alive
  /\ Dispatch("remove_cinnamon_word", word, remove_cinnamon_word(state, word))

NextCheck ==
  \/ CallCheckText
  \/ \E check_type \in CheckNameInputs, enabled \in BOOLEAN :
       CallSetCheckEnabled(check_type, enabled)
  \/ \E word \in RegistryInputs : CallAddCinnamonWord(word)
  \/ \E word \in RegistryInputs : CallRemoveCinnamonWord(word)

SpecCheck == InitCheck /\ [][NextCheck]_vars

(***************************************************************************)
(* WritingChecker and ReadabilityAnalyzer called directly on chosen texts, *)
(* with every pass name handed to set_check_enabled.                       *)
(***************************************************************************)
T_blank == <<" ", " ", "\n">>
T_dots == <<".", ".", ".">>
T_marks == <<" ", "?", "!", " ", ".">>
T_utilize ==
  <<"W","e"," ","w","i","l","l"," ","u","t","i","l","i","z","e"," ","t","h","i","s",".">>
\* was asked very quickly in order to its its
T_mixed ==
  <<"w","a","s"," ","a","s","k","e","d"," ","v","e","r","y"," ","q","u","i",
    "c","k","l","y"," ","i","n"," ","o","r","d","e","r"," ","t","o"," ","i",
    "t","s"," ","i","t","s">>

\* one sentence of 21 words
T_long ==
  <<"a"," ","b"," ","c"," ","d"," ","e"," ","f"," ","g"," ","h"," ","i"," ",
    "j"," ","k"," ","l"," ","m"," ","n"," ","o"," ","p"," ","q"," ","r"," ",
    "s"," ","t"," ","u",".">>

\* the texts: empty, blank, terminators only, and three that between them
\* have issues of every pass
ConfigTexts == {<<>>, T_blank, T_dots, T_marks, T_utilize, T_mixed, T_long}

\* the names handed to set_check_enabled: the nine passes and an unknown one
PassInputs == Range(PassNames) \cup {"spelling"}

InitConfig ==
  /\ writing_checker_visible = FALSE
  /\ timer_active = FALSE
  /\ text \in ConfigTexts
  /\ has_selection = FALSE
  /\ enabled_checks = [n \in Range(PassNames) |-> TRUE]
  /\ cinnamon_words = CINNAMON_WORDS
  /\ cinnamon_list = {}
  /\ issues = <<>>
  /\ current_issue_index = 0
  /\ highlighted = <<>>
  /\ removed_issue = NoIssue
  /\ check_text_calls = 0
  /\ scanned_text = NoText
  /\ raised = FALSE
  /\ alive = TRUE
  /\ handler = <<"__init__", NoArg>>
  /\ burst = 0
  /\ timer_was_active = FALSE
  /\ index_was = 0
  /\ registry_was = CINNAMON_WORDS
  /\ returned = <<>>
  /\ readability_data = empty_analysis

\* ReadabilityAnalyzer.analyze(text)
CallAnalyze ==
  /\ alive
  /\ \E analysis \in analyze(text) :
       IF analysis = ZeroDivisionError
         THEN Dispatch("analyze", NoArg, raise(state))
         ELSE DispatchCore("analyze", NoArg, state, returned, analysis)

NextConfig ==
  \/ CallCheckText
  \/ CallAnalyze
  \/ \E check_type \in PassInputs, enabled \in BOOLEAN :
       CallSetCheckEnabled(check_type, enabled)

SpecConfig == InitConfig /\ [][NextConfig]_vars

(***************************************************************************)
(* The registry of a WritingChecker: calls of add_cinnamon_word and        *)
(* remove_cinnamon_word with differently cased words, and check_text on a  *)
(* text in which the words occur.                                          *)
(***************************************************************************)
\* Very its very
T_very_its_very == <<"V","e","r","y"," ","i","t","s"," ","v","e","r","y">>

RegistryTexts == {T_very_its_very}

\* a new word in two spellings, and a word of CINNAMON_WORDS capitalised
RegistryWords == {<<"I","t","s">>, <<"i","t","s">>, <<"V","e","r","y">>}

InitRegistry ==
  /\ writing_checker_visible = FALSE
  /\ timer_active = FALSE
  /\ text \in RegistryTexts
  /\ has_selection = FALSE
  /\ enabled_checks = [n \in Range(PassNames) |-> TRUE]
  /\ cinnamon_words = CINNAMON_WORDS
  /\ cinnamon_list = {}
  /\ issues = <<>>
  /\ current_issue_index = 0
  /\ highlighted = <<>>
  /\ removed_issue = NoIssue
  /\ check_text_calls = 0
  /\ scanned_text = NoText
  /\ raised = FALSE
  /\ alive = TRUE
  /\ handler = <<"__init__", NoArg>>
  /\ burst = 0
  /\ timer_was_active = FALSE
  /\ index_was = 0
  /\ registry_was = CINNAMON_WORDS
  /\ returned = <<>>
  /\ readability_data = empty_analysis

NextRegistry ==
  \/ CallCheckText
  \/ \E word \in RegistryWords : CallAddCinnamonWord(word)
  \/ \E word \in RegistryWords : CallRemoveCinnamonWord(word)

SpecRegistry == InitRegistry /\ [][NextRegistry]_vars

(***************************************************************************)
(* The passes of WritingChecker and the scores of ReadabilityAnalyzer on    *)
(* texts chosen for their offsets and scores: segments behind terminator   *)
(* runs, pairs behind varying whitespace, a character that str.lower()     *)
(* lengthens, scores beyond the ends of their scales and an average grade  *)
(* just below a level limit.                                               *)
(***************************************************************************)
\* U+0130 a a: a repeated pair behind a character that lower() lengthens
T_idot_pair ==
  <<"U+0130"," ","a"," ","a">>

\* a sentence of 21 words behind a run of three terminators
T_after_run ==
  <<".",".",".","a"," ","b"," ","c"," ","d"," ","e"," ","f"," ","g"," ","h",
    " ","i"," ","j"," ","k"," ","l"," ","m"," ","n"," ","o"," ","p"," ","q",
    " ","r"," ","s"," ","t"," ","u">>

\* one sentence of 20 words
T_twenty ==
  <<"a"," ","b"," ","c"," ","d"," ","e"," ","f"," ","g"," ","h"," ","i"," ",
    "j"," ","k"," ","l"," ","m"," ","n"," ","o"," ","p"," ","q"," ","r"," ",
    "s"," ","t",".">>

\* a sentence of 21 words behind a one-word sentence and a blank
T_second ==
  <<"x","."," ","a"," ","b"," ","c"," ","d"," ","e"," ","f"," ","g"," ","h",
    " ","i"," ","j"," ","k"," ","l"," ","m"," ","n"," ","o"," ","p"," ","q",
    " ","r"," ","s"," ","t"," ","u">>

\* a repeated pair separated by two blanks
T_two_spaces ==
  <<"a"," "," ","a">>

\* a repeated pair whose word occurs earlier inside another word
T_inside ==
  <<"a","b"," ","a"," ","a">>

\* a repeated pair separated by one blank
T_pair ==
  <<"a"," ","a">>

\* one word of three syllables
T_jargon ==
  <<"u","t","i","l","i","z","e">>

\* idea idea area idea idea.
T_idea ==
  <<"i","d","e","a"," ","i","d","e","a"," ","a","r","e","a"," ","i","d","e",
    "a"," ","i","d","e","a",".">>

\* very Very nice very
T_counts ==
  <<"v","e","r","y"," ","V","e","r","y"," ","n","i","c","e"," ","v","e","r",
    "y">>

PassTexts ==
  {T_idot_pair, T_after_run, T_twenty, T_second, T_two_spaces, T_inside,
   T_pair, T_jargon, T_idea, T_counts, T_long, T_mixed}

\* the names handed to set_check_enabled
PassNameInputs == {"long_sentences", "repeated_words"}

InitPasses ==
  /\ writing_checker_visible = FALSE
  /\ timer_active = FALSE
  /\ text \in PassTexts
  /\ has_selection = FALSE
  /\ enabled_checks = [n \in Range(PassNames) |-> TRUE]
  /\ cinnamon_words = CINNAMON_WORDS
  /\ cinnamon_list = {}
  /\ issues = <<>>
  /\ current_issue_index = 0
  /\ highlighted = <<>>
  /\ removed_issue = NoIssue
  /\ check_text_calls = 0
  /\ scanned_text = NoText
  /\ raised = FALSE
  /\ alive = TRUE
  /\ handler = <<"__init__", NoArg>>
  /\ burst = 0
  /\ timer_was_active = FALSE
  /\ index_was = 0
  /\ registry_was = CINNAMON_WORDS
  /\ returned = <<>>
  /\ readability_data = empty_analysis

NextPasses ==
  \/ CallCheckText
  \/ CallAnalyze
  \/ \E check_type \in PassNameInputs, enabled \in BOOLEAN :
       CallSetCheckEnabled(check_type, enabled)

SpecPasses == InitPasses /\ [][NextPasses]_vars

(***************************************************************************)
(* Properties                                                              *)
(***************************************************************************)
TimerFires == timer_active /\ handler' = <<"timeout", NoArg>>

TextChangeNotified == handler' = <<"schedule_writing_check", NoArg>>

ToggledOff == handler[1] = "toggle_writing_checker" /\ ~writing_checker_visible

TogglesOff == handler'[1] = "toggle_writing_checker" /\ ~writing_checker_visible'

\* the handlers that call run_writing_check
ScanRequested ==
  \/ handler'[1] \in {"timeout", "refresh_requested", "on_check_type_changed",
                      "add_cinnamon", "remove_cinnamon"}
  \/ handler'[1] = "toggle_writing_checker" /\ writing_checker_visible'

IsSortedByStart(list) ==
  \A i, j \in 1..Len(list) : i < j => list[i].start <= list[j].start

\* same type, span and text
Equivalent(a, b) ==
  /\ a.issue_type = b.issue_type
  /\ a.start = b.start
  /\ a.end = b.end
  /\ a.text = b.text

\* C1: when the timer armed by a burst of n >= 1 text-change notifications
\* fires, check_text is invoked exactly once, with the document text of that
\* moment.
C1_DebounceOneScan ==
  [][(TimerFires /\ burst >= 1)
       => (check_text_calls' = check_text_calls + 1 /\ scanned_text' = text)]_vars

\* C2: the issue list returned by check_text is sorted non-decreasing by start.
C2_SortedByStart == IsSortedByStart(returned)

\* a call whose collected issues were out of order before the sort
C2_Witness ==
  /\ handler[1] = "check_text"
  /\ Len(returned) >= 2
  /\ ~IsSortedByStart(collect_issues(text, enabled_checks, cinnamon_words))

\* C3: when the timer fires in state Pending, check_text runs once on the
\* document text, the timer is stopped, the dock's issue list becomes the list
\* check_text returns, and the current position is 0 if that list is not empty.
C3_TimerFireReplacesStore ==
  [][TimerFires
       => /\ check_text_calls' = check_text_calls + 1
          /\ scanned_text' = text
          /\ ~timer_active'
          /\ issues' = check_text_issues(text, enabled_checks, cinnamon_words)
          /\ (issues' # <<>> => current_issue_index' = 0)]_vars

\* C4: while the document has a selection, a text-change notification neither
\* arms an idle timer nor restarts a pending one.
C4_SelectionPausesTimer ==
  [][(has_selection /\ TextChangeNotified)
       => (timer_active' = timer_active /\ burst' = burst)]_vars

C5_WitnessStopped ==
  /\ handler[1] = "refresh_requested"
  /\ timer_was_active
  /\ ~timer_active

\* C6: while the analysis feature is off the timer is idle: toggling off stops
\* a pending timer, and text changes made while it is off do not arm it.
C6_OffMeansIdle == ~writing_checker_visible => ~timer_active

\* the feature has just been toggled off while the timer was pending
C6_Witness == ToggledOff /\ timer_was_active /\ ~timer_active

\* C7, as claimed: right after toggle-off nothing is highlighted and the dock's
\* issue list is empty.
C7_ToggleOffEmptiesStore == ToggledOff => (highlighted = <<>> /\ issues = <<>>)

\* C7, amended: toggle-off removes every highlight and leaves the dock's issue
\* list and current position as they were.
C7_ToggleOffClearsHighlights ==
  [][TogglesOff
       => /\ highlighted' = <<>>
          /\ issues' = issues
          /\ current_issue_index' = current_issue_index]_vars

\* toggled off with issues in the dock's list
C7_Witness == ToggledOff /\ issues # <<>> /\ highlighted = <<>> /\ removed_issue # NoIssue

\* C8: toggling the feature, off or on, leaves enabled_checks and
\* cinnamon_words as they were.
C8_ToggleKeepsConfiguration ==
  [][handler'[1] = "toggle_writing_checker"
       => (enabled_checks' = enabled_checks /\ cinnamon_words' = cinnamon_words)]_vars

\* toggled off with a configuration and a registry that differ from the defaults
C8_Witness ==
  /\ ToggledOff
  /\ \E n \in DOMAIN enabled_checks : ~enabled_checks[n]
  /\ cinnamon_words # CINNAMON_WORDS

\* C9: after a scan request (timer or refresh), an ignored issue that check_text
\* still detects in the document is in the dock's list again.
C9_IgnoredIssueResurfaces ==
  LET fresh == check_text_issues(text, enabled_checks, cinnamon_words)
  IN  (/\ handler[1] \in {"timeout", "refresh_requested"}
       /\ \E k \in 1..Len(fresh) : Equivalent(fresh[k], removed_issue))
        => \E k \in 1..Len(issues) : Equivalent(issues[k], removed_issue)

\* C10: on_ignore_issue(i) with 0 <= i < length removes the entry at index i,
\* keeps the others in order, and makes min(i, new length - 1) the current
\* position if entries remain.
C10_IgnoreRemovesEntry ==
  [][(/\ handler'[1] \in {"on_ignore_issue", "ignore_current_issue"}
      /\ 0 <= handler'[2] /\ handler'[2] < Len(issues))
       => LET i == handler'[2]
          IN  /\ Len(issues') = Len(issues) - 1
              /\ \A k \in 1..Len(issues') :
                   issues'[k] = IF k <= i THEN issues[k] ELSE issues[k + 1]
              /\ (issues' # <<>>
                    => current_issue_index'
                         = IF i < Len(issues') - 1 THEN i ELSE Len(issues') - 1)]_vars

\* the last of three entries has been ignored: the position is clamped to 1
C10_Witness ==
  /\ handler = <<"on_ignore_issue", 2>>
  /\ Len(issues) = 2
  /\ current_issue_index = 1

\* C11: on_ignore_issue(i) and the "Ignore This" button with an index outside
\* [0, length), any index on an empty list included, change neither the issue
\* list nor the current position nor the highlights, and raise nothing.
C11_IgnoreOutOfRangeIsNoOp ==
  [][(/\ handler'[1] \in {"on_ignore_issue", "ignore_current_issue"}
      /\ ~(0 <= handler'[2] /\ handler'[2] < Len(issues)))
       => /\ issues' = issues
          /\ current_issue_index' = current_issue_index
          /\ highlighted' = highlighted
          /\ ~raised']_vars

\* on_ignore_issue has just been called with an index outside a non-empty list
\* from which nothing was ever removed
C11_Witness ==
  /\ handler[1] = "on_ignore_issue"
  /\ (handler[2] < 0 \/ handler[2] >= Len(issues))
  /\ issues # <<>>
  /\ removed_issue = NoIssue
  /\ ~raised

\* C12: on a list of n >= 1 issues with current position p, show_next_issue
\* makes (p + 1) mod n the current position and show_previous_issue makes it
\* (p - 1) mod n; on an empty list neither changes the list or the position.
C12_NextPreviousWrap ==
  [][/\ handler'[1] = "show_next_issue"
          => /\ issues' = issues
             /\ current_issue_index'
                  = IF issues = <<>> THEN current_issue_index
                    ELSE (current_issue_index + 1) % Len(issues)
     /\ handler'[1] = "show_previous_issue"
          => /\ issues' = issues
             /\ current_issue_index'
                  = IF issues = <<>> THEN current_issue_index
                    ELSE (current_issue_index - 1) % Len(issues)]_vars

\* "Next" on the last of at least two entries has wrapped to the first
C12_Witness ==
  /\ handler[1] = "show_next_issue"
  /\ Len(issues) >= 2
  /\ index_was = Len(issues) - 1
  /\ current_issue_index = 0

\* "Previous" on the first of at least two entries has wrapped to the last
C12_WitnessPrevious ==
  /\ handler[1] = "show_previous_issue"
  /\ Len(issues) >= 2
  /\ index_was = 0
  /\ current_issue_index = Len(issues) - 1

\* C13: show_issue(idx) on a non-empty list makes idx, clamped into
\* [0, length - 1], the current position.
C13_ShowClamps ==
  [][(handler'[1] = "show_issue" /\ issues # <<>>)
       => current_issue_index'
            = IF handler'[2] < 0 THEN 0
              ELSE IF handler'[2] > Len(issues) - 1 THEN Len(issues) - 1
              ELSE handler'[2]]_vars

\* the issues of list that start at v, in list order
IssuesAt(list, v) == SelectSeq(list, LAMBDA x : x.start = v)

\* C14: the sort of check_text is stable: the returned issues of one start are
\* in the order in which the passes, run in their fixed order, produced them.
C14_SortIsStable ==
  handler[1] = "check_text"
    => LET collected == collect_issues(text, enabled_checks, cinnamon_words)
       IN  \A v \in {collected[k].start : k \in 1..Len(collected)} :
             IssuesAt(returned, v) = IssuesAt(collected, v)

\* a call that returned two issues of different passes with one start, from
\* collected issues that were out of order
C14_Witness ==
  /\ handler[1] = "check_text"
  /\ \E i, j \in 1..Len(returned) :
       /\ i < j
       /\ returned[i].start = returned[j].start
       /\ returned[i].issue_type # returned[j].issue_type
  /\ ~IsSortedByStart(collect_issues(text, enabled_checks, cinnamon_words))

\* the issues of list that are not of type P, in list order
IssuesNotOf(list, P) == SelectSeq(list, LAMBDA x : x.issue_type # P)

\* C15: with pass P disabled, check_text returns no issue of type P, returns
\* the issues of the other passes as and in the order it returns them with P
\* enabled, and returns the readability result it returns with P enabled.
C15_DisabledPassIsSkipped ==
  handler[1] = "check_text"
    => \A P \in Range(PassNames) :
         ~enabled_checks[P]
           => LET with_P == check_text(text, [enabled_checks EXCEPT ![P] = TRUE],
                                       cinnamon_words)
              IN  /\ \A k \in 1..Len(returned) : returned[k].issue_type # P
                  /\ \A pair \in with_P : returned = IssuesNotOf(pair[1], P)
                  /\ readability_data \in {pair[2] : pair \in with_P}
                  /\ {pair[2] : pair \in with_P}
                       = {pair[2] : pair \in check_text(text, enabled_checks, cinnamon_words)}

\* check_text has run with jargon disabled on the text 'We will utilize this.'
C15_Witness ==
  /\ handler[1] = "check_text"
  /\ ~enabled_checks["jargon"]
  /\ text = T_utilize
  /\ check_jargon(text) # <<>>
  /\ readability_data # empty_analysis

\* check_text has run with a pass disabled that has issues in the text, and
\* has returned issues of other passes
C15_WitnessOthers ==
  /\ handler[1] = "check_text"
  /\ returned # <<>>
  /\ \E P \in Range(PassNames) :
       /\ ~enabled_checks[P]
       /\ \E pair \in check_text(text, [enabled_checks EXCEPT ![P] = TRUE], cinnamon_words) :
            Len(pair[1]) > Len(returned)

\* C16: set_check_enabled with a name that is not a pass name changes no entry,
\* adds none and raises nothing; the keys of enabled_checks are always the nine
\* pass names.
C16_UnknownNameIsNoOp ==
  /\ [](DOMAIN enabled_checks = Range(PassNames))
  /\ [][(handler'[1] = "set_check_enabled" /\ handler'[2] \notin Range(PassNames))
          => (enabled_checks' = enabled_checks /\ ~raised')]_vars

\* set_check_enabled has been called with 'spelling' on a configuration with
\* a disabled pass
C16_Witness ==
  /\ handler = <<"set_check_enabled", "spelling">>
  /\ \E n \in DOMAIN enabled_checks : ~enabled_checks[n]
  /\ ~raised

\* C17: add_cinnamon_word of a word that equals, ignoring case, the word of
\* the add_cinnamon_word call before it changes nothing; the registry holds
\* lower-case words only and no word twice.
C17_AddIsIdempotent ==
  /\ [](\A k \in 1..Len(cinnamon_words) :
          /\ cinnamon_words[k] = Lower(cinnamon_words[k])
          /\ \A j \in 1..Len(cinnamon_words) : cinnamon_words[j] = cinnamon_words[k] => j = k)
  /\ [][(/\ handler[1] = "add_cinnamon_word"
          /\ handler'[1] = "add_cinnamon_word"
          /\ Lower(handler'[2]) = Lower(handler[2]))
          => cinnamon_words' = cinnamon_words]_vars

\* add_cinnamon_word('Its') has been called on a registry that held 'its'
C17_Witness ==
  /\ handler = <<"add_cinnamon_word", <<"I","t","s">> >>
  /\ registry_was = cinnamon_words
  /\ <<"i","t","s">> \in Range(cinnamon_words)

\* C18: remove_cinnamon_word(w) with w.lower() not in the registry leaves the
\* registry as it is and raises nothing; with w.lower() in the registry it
\* removes that word and keeps the others in their order.
C18_RemoveFrame ==
  [][handler'[1] = "remove_cinnamon_word"
       => LET w == Lower(handler'[2])
          IN  /\ ~raised'
              /\ IF w \in Range(cinnamon_words)
                    THEN /\ cinnamon_words' = SelectSeq(cinnamon_words, LAMBDA x : x # w)
                         /\ Len(cinnamon_words') = Len(cinnamon_words) - 1
                    ELSE cinnamon_words' = cinnamon_words]_vars

\* remove_cinnamon_word('Its') has been called on a registry without 'its'
C18_Witness ==
  /\ handler = <<"remove_cinnamon_word", <<"I","t","s">> >>
  /\ <<"i","t","s">> \notin Range(cinnamon_words)
  /\ registry_was = cinnamon_words
  /\ ~raised

\* remove_cinnamon_word('Very') has removed 'very' from the middle of the registry
C18_WitnessPresent ==
  /\ handler = <<"remove_cinnamon_word", <<"V","e","r","y">> >>
  /\ registry_was = CINNAMON_WORDS
  /\ Len(cinnamon_words) = Len(CINNAMON_WORDS) - 1

\* w stands at position i of t as a whole word, ignoring case
WholeWordAt(t, i, w) ==
  LitAt(t, i, w) /\ ~IsWordAt(t, i - 1) /\ ~IsWordAt(t, i + Len(w))

\* C19: check_text reads the registry as it is at the call: it returns a
\* cinnamon_words issue for every whole-word occurrence of every word that is
\* in the registry and none for any other word; add_cinnamon_word and
\* remove_cinnamon_word leave the issue list returned earlier as it is.
C19_RegistryReadAtScan ==
  /\ [](handler[1] = "check_text"
          => /\ \A w \in Range(cinnamon_words) : \A i \in 1..Len(text) :
                  WholeWordAt(text, i, w)
                    => \E k \in 1..Len(returned) :
                         /\ returned[k].issue_type = "cinnamon_words"
                         /\ returned[k].start = i - 1
                         /\ returned[k].end = i - 1 + Len(w)
             /\ \A k \in 1..Len(returned) :
                  returned[k].issue_type = "cinnamon_words"
                    => Lower(returned[k].text) \in Range(cinnamon_words))
  /\ [][handler'[1] \in {"add_cinnamon_word", "remove_cinnamon_word"}
          => returned' = returned]_vars

\* check_text has run after 'its' was added and 'very' was removed, on a text
\* with both words
C19_Witness ==
  /\ handler[1] = "check_text"
  /\ <<"i","t","s">> \in Range(cinnamon_words)
  /\ <<"v","e","r","y">> \notin Range(cinnamon_words)
  /\ \E i \in 1..Len(text) : WholeWordAt(text, i, <<"v","e","r","y">>)
  /\ \E k \in 1..Len(returned) :
       returned[k].issue_type = "cinnamon_words" /\ Lower(returned[k].text) = <<"i","t","s">>

\* the text has no sentence or no word
Degenerate(t) == count_sentences(t) = 0 \/ count_words(t) = 0

\* C20: for a text with no sentence or no word, analyze returns the empty
\* analysis and check_text returns it as its readability result; neither raises.
C20_DegenerateTextGivesEmptyAnalysis ==
  (handler[1] \in {"analyze", "check_text"} /\ Degenerate(text))
    => (readability_data = empty_analysis /\ ~raised)

\* check_text has run on a text that is not blank and has no sentence
C20_Witness ==
  /\ handler[1] = "check_text"
  /\ strip(text) # <<>>
  /\ count_sentences(text) = 0
  /\ readability_data = empty_analysis

\* analyze has run on a text with sentences and words
C20_WitnessScores ==
  /\ handler[1] = "analyze"
  /\ ~Degenerate(text)
  /\ readability_data.words > 0

\* C21: every issue returned by check_text lies within the text it was given:
\* 0 <= start <= end <= len(text), whichever of the nine passes produced it.
C21_SpansWithinText ==
  handler[1] = "check_text"
    => \A k \in 1..Len(returned) :
         /\ 0 <= returned[k].start
         /\ returned[k].start <= returned[k].end
         /\ returned[k].end <= Len(text)

\* the slice t[start:end] of Python, for 0 <= start
Slice(t, start, end) == SubSeq(t, start + 1, Min({end, Len(t)}))

\* C22: the text field of every issue returned by check_text is the slice
\* [start, end) of the text given to check_text.
C22_TextIsTheSpan ==
  handler[1] = "check_text"
    => \A k \in 1..Len(returned) :
         returned[k].text = Slice(text, returned[k].start, returned[k].end)

\* C23: for a text with at least one sentence and one word, the reported
\* Flesch-Kincaid grade is at least 0, the reported Flesch Reading Ease lies
\* in [0, 100] and the reported Gunning Fog index is at least 0 (the scores
\* are counted in tenths).
C23_ScoresInRange ==
  (handler[1] \in {"analyze", "check_text"} /\ ~Degenerate(text))
    => /\ readability_data.flesch_kincaid_grade >= 0
       /\ readability_data.flesch_reading_ease >= 0
       /\ readability_data.flesch_reading_ease <= 1000
       /\ readability_data.gunning_fog >= 0

\* analyze has run on a text whose reading ease, by the formula, is below 0
C23_Witness ==
  /\ handler[1] = "analyze"
  /\ ~Degenerate(text)
  /\ 206835 * count_sentences(text) * count_words(text)
       < 1015 * count_words(text) * count_words(text)
           + 84600 * count_syllables(text) * count_sentences(text)
  /\ readability_data.flesch_reading_ease = 0

\* check_text has run on a text whose grade, by the formula, is below 0 and
\* whose reading ease, by the formula, is above 100
C23_WitnessFloor ==
  /\ handler[1] = "check_text"
  /\ ~Degenerate(text)
  /\ 39 * count_words(text) * count_words(text)
       + 1180 * count_syllables(text) * count_sentences(text)
         < 1559 * count_sentences(text) * count_words(text)
  /\ readability_data.flesch_kincaid_grade = 0
  /\ readability_data.flesch_reading_ease = 1000

\* C24: the difficulty label of an analysis is the label of the level whose
\* range [min, max) contains the average grade the analysis returns
\* (in tenths), also when that grade is on a limit of two levels.
C24_LabelOfReturnedGrade ==
  (handler[1] \in {"analyze", "check_text"} /\ ~Degenerate(text))
    => readability_data.difficulty = level_of(<<readability_data.avg_grade, 10>>)

\* the segments of t between its runs of terminators, each as the pair of its
\* first position and the position following its last
SegmentSpans(t) ==
  {sp \in (1..(Len(t) + 1)) \X (1..(Len(t) + 1)) :
     /\ sp[1] <= sp[2]
     /\ \A k \in sp[1]..(sp[2] - 1) : ~IsTerminator(t[k])
     /\ sp[1] = 1 \/ IsTerminator(t[sp[1] - 1])
     /\ sp[2] = Len(t) + 1 \/ IsTerminator(t[sp[2]])}

\* C26: long_sentences reports a segment between runs of terminators exactly
\* when the segment has more than 20 whitespace-separated tokens, and the
\* issue's [start, end) is the extent of that segment in the text.
C26_LongSentenceSpans ==
  (handler[1] = "check_text" /\ enabled_checks["long_sentences"])
    => LET reported == SelectSeq(returned, LAMBDA x : x.issue_type = "long_sentences")
       IN  {<<reported[k].start, reported[k].end>> : k \in 1..Len(reported)}
             = {<<sp[1] - 1, sp[2] - 1>> :
                  sp \in {x \in SegmentSpans(text) :
                            Len(split(SubSeq(text, x[1], x[2] - 1))) > 20}}

\* the whitespace-separated tokens of t, each as the pair of its first
\* position and the position following its last
TokenSpans(t) ==
  {sp \in (1..Len(t)) \X (2..(Len(t) + 1)) :
     /\ sp[1] < sp[2]
     /\ \A k \in sp[1]..(sp[2] - 1) : ~IsSpace(t[k])
     /\ sp[1] = 1 \/ IsSpace(t[sp[1] - 1])
     /\ sp[2] = Len(t) + 1 \/ IsSpace(t[sp[2]])}

\* token b is the token that follows token a
Adjacent(t, a, b) == a[2] < b[1] /\ \A k \in a[2]..(b[1] - 1) : IsSpace(t[k])

\* C27: for every pair of adjacent tokens that are equal ignoring case,
\* repeated_words reports an issue that starts at the first occurrence,
\* ignoring case, of the first token in the text and is as long as the two
\* tokens and the whitespace between them, however much whitespace that is.
C27_RepeatedPairSpans ==
  (handler[1] = "check_text" /\ enabled_checks["repeated_words"])
    => \A a, b \in TokenSpans(text) :
         LET first == SubSeq(text, a[1], a[2] - 1)
             second == SubSeq(text, b[1], b[2] - 1)
         IN  (Adjacent(text, a, b) /\ Lower(first) = Lower(second))
               => \E k \in 1..Len(returned) :
                    /\ returned[k].issue_type = "repeated_words"
                    /\ returned[k].start = find(Lower(text), Lower(first))
                    /\ returned[k].end - returned[k].start = b[2] - a[1]

\* C28: the k-th whole-word match of a registry word in the text, counted
\* from the left and from 1, is reported with the count k; the count starts
\* again for every word and for every call.
C28_CountIsOccurrenceNumber ==
  (handler[1] = "check_text" /\ enabled_checks["cinnamon_words"])
    => \A w \in Range(cinnamon_words) :
         \A i \in 1..Len(text) :
           WholeWordAt(text, i, w)
             => \E k \in 1..Len(returned) :
                  /\ returned[k].issue_type = "cinnamon_words"
                  /\ returned[k].start = i - 1
                  /\ returned[k].end = i - 1 + Len(w)
                  /\ returned[k].suggestion[2]
                       = Cardinality({j \in 1..i : WholeWordAt(text, j, w)})

\* check_text has reported the third match of one word with the count 3 and,
\* in front of it, the first match of a word further down the registry with 1
C28_Witness ==
  /\ handler[1] = "check_text"
  /\ \E i, j \in 1..Len(returned) :
       /\ returned[i].issue_type = "cinnamon_words"
       /\ returned[j].issue_type = "cinnamon_words"
       /\ returned[i].suggestion[2] = 1
       /\ returned[j].suggestion[2] = 3
       /\ returned[i].start < returned[j].start
       /\ Lower(returned[i].text) # Lower(returned[j].text)

\* C25: whenever the issue list of the dock is not empty, the current
\* position p satisfies 0 <= p < length, after any sequence of list
\* replacements, ignores, shows, next and previous steps.
C25_PositionInRange ==
  issues # <<>>
    => (0 <= current_issue_index /\ current_issue_index < Len(issues))

\* set_issues has replaced the list by a shorter, non-empty one while the
\* position was beyond the new list's last index
C25_Witness ==
  /\ handler[1] = "set_issues"
  /\ issues # <<>>
  /\ index_was >= Len(issues)

\* on_ignore_issue has removed the last issue of the list while it was the
\* current one, and issues are left
C25_WitnessRemoval ==
  /\ handler[1] = "on_ignore_issue"
  /\ handler[2] = Len(issues)
  /\ index_was = Len(issues)
  /\ removed_issue # NoIssue
  /\ issues # <<>>

\* C29: no stale result at rest: in every state of the running program in
\* which the feature is on and the timer is not armed, the text given to the
\* most recent scan is the current text of the document.
C29_NoStaleResultAtRest ==
  (alive /\ writing_checker_visible /\ ~timer_active) => scanned_text = text

\* C30: once a text change has armed the timer with the feature on, then,
\* unless the feature is turned off, a state follows in which a scan has run
\* on the current text, the timer is not armed and the dock holds the issues
\* of that text.
C30_ScanFollowsTextChange ==
  (alive /\ writing_checker_visible /\ timer_active
     /\ handler[1] = "schedule_writing_check")
    ~> (\/ ~writing_checker_visible
        \/ /\ ~timer_active
           /\ scanned_text = text
           /\ issues = check_text_issues(text, enabled_checks, cinnamon_words))

====
